---- MODULE Spec2Model ----
(***************************************************************************)
(* The task lifecycle engine of runninghub-batch-api (ApiTaskManager):     *)
(* the store rows of api_missions / api_mission_items, the in-memory ready *)
(* queue and concurrency counter, the consumer thread, the polling         *)
(* workers, the completion monitors, the retry checker, the scheduler, the *)
(* HTTP operations cancel / retry, and a process crash followed by         *)
(* start().  A step is what one thread does up to the return of a network  *)
(* call or the hand-over of a lock.  The counter update of a polling       *)
(* worker is two steps, load and store, because the consumer updates the   *)
(* same counter under another lock.                                        *)
(* MockApiClient, the provider stand-in of the test setup, is modelled     *)
(* next to the engine in the variable mock.                                *)
(***************************************************************************)
EXTENDS Integers, Sequences, FiniteSets, TLC

\* ---------------------------------------------------------------- bounds
MaxMissions == 1     \* missions that can be created
MaxItems == 2        \* largest batch_input of a mission
MaxQueue == 3        \* longest ready queue explored
MaxConcurrent == 2   \* value given to self.max_concurrent (50 in production)
MaxTasks == 3        \* provider tasks accepted in one behaviour
MaxFail == 1         \* submit errors / provider FAILED results in one behaviour
MaxCancel == 1       \* cancel requests in one behaviour
MaxRetryOps == 1     \* manual retry requests in one behaviour
MaxCrash == 1        \* process crashes in one behaviour
MaxTransport == 1    \* transport errors of query_task in one behaviour
MaxBadCreate == 1    \* create requests with invalid input in one behaviour
MaxMockTasks == 3    \* submit_task calls MockApiClient accepts or refuses
MockMaxConcurrent == 2   \* value given to MockApiClient.max_concurrent (50)
MaxExecution == 3    \* largest execution_time drawn (15 in the code)
MaxMockTime == 4     \* seconds of MockApiClient's clock explored
MaxQueries == 2      \* threads calling query_task at the same time
MaxMockRestart == 1  \* restarts of the process holding MockApiClient
MaxRestarts == 2     \* restarts after a downtime in one behaviour
MaxStoreErr == 1     \* execute_sql calls that raise in one behaviour
SchedAhead == 30     \* seconds between creation and scheduled_time

\* ------------------------------------------------------ program constants
MAX_RETRY_COUNT == 7
BASE_RETRY_DELAY == 60
MAX_RETRY_DELAY == 3600
NULL == 0            \* SQL NULL / Python None for instants and task ids
SCHEDULED_PAST_TOLERANCE == 5   \* now - timedelta(seconds=5)
min_execution_time == 3
QUEUED_SECONDS == 1  \* elapsed < 1: the task is reported QUEUED
SCHEDULED_EXPIRY == 600   \* now - timedelta(minutes=10)

Missions == 1..MaxMissions
Items == 1..(MaxMissions * MaxItems)
MissionOf(i) == ((i - 1) \div MaxItems) + 1
IndexOf(i) == ((i - 1) % MaxItems) + 1

VARIABLES
    now,                 \* get_current_timestamp(), in seconds
    mission,             \* rows of api_missions
    item,                \* rows of api_mission_items
    item_queue,          \* ApiTaskManager.item_queue
    current_concurrent,  \* ApiTaskManager.current_concurrent
    max_concurrent,      \* ApiTaskManager.max_concurrent
    items_to_process,    \* the consumer's admitted batch, head being submitted
    submit_result,       \* result of platform_manager.submit_task for the head
    polling,             \* live _polling_worker threads
    monitors,            \* live _monitor_mission_completion threads per mission
    tasks,               \* tasks the provider has accepted, by task id
    adding,              \* add_to_queue calls between their push and UPDATE
    creating,            \* create_api_mission calls between their INSERTs
    mock,                \* the MockApiClient instance, its state file and callers
    app,                 \* the AppTaskManager instance and its two tables
    pm,                  \* a submit_task_with_platform call and its inputs
    budget               \* how many more faults / user requests are explored

vars == <<now, mission, item, item_queue, current_concurrent, max_concurrent,
          items_to_process, submit_result, polling, monitors, tasks, adding,
          creating, mock, app, pm, budget>>

\* --------------------------------------------------------------- helpers
RECURSIVE TwoPow(_)
TwoPow(n) == IF n = 0 THEN 1 ELSE 2 * TwoPow(n - 1)

Min(a, b) == IF a < b THEN a ELSE b

calculate_retry_delay_Unclipped(retry_count) ==
    BASE_RETRY_DELAY * TwoPow(retry_count)

calculate_retry_delay(retry_count) ==
    Min(BASE_RETRY_DELAY * TwoPow(retry_count), MAX_RETRY_DELAY)

RECURSIVE SortById(_)
SortById(S) ==
    IF S = {} THEN <<>>
    ELSE LET m == CHOOSE x \in S : \A y \in S : x <= y
         IN  <<m>> \o SortById(S \ {m})

\* ORDER BY next_retry_at ASC (ties in row order)
RECURSIVE SortByRetryAt(_)
SortByRetryAt(S) ==
    IF S = {} THEN <<>>
    ELSE LET m == CHOOSE x \in S : \A y \in S :
                     \/ item[x].next_retry_at < item[y].next_retry_at
                     \/ /\ item[x].next_retry_at = item[y].next_retry_at
                        /\ x <= y
         IN  <<m>> \o SortByRetryAt(S \ {m})

RECURSIVE Reverse(_)
Reverse(s) == IF s = <<>> THEN <<>> ELSE Reverse(Tail(s)) \o <<Head(s)>>

ItemsOf(m) == {i \in Items : MissionOf(i) = m /\ item[i].status # "absent"}

NoMission == [status |-> "absent", total_count |-> 0, completed_count |-> 0,
              failed_count |-> 0, scheduled_time |-> NULL]
NoItem == [status |-> "absent", retry_count |-> 0, next_retry_at |-> NULL,
           platform_task_id |-> NULL, platform_id |-> "none"]

\* MockApiClient: ids of its tasks, the threads calling query_task, and the
\* instance __init__ builds when there is no state file
MockTasks == 1..MaxMockTasks
Callers == 1..MaxQueries
NoMockTask == [status |-> "absent", created_at |-> 0, execution_time |-> 0]
\* a thread outside query_task; seen is what had been reported for the task
\* when the call began
IdleCaller == [pc |-> "idle", task |-> 0, seen |-> "none"]
NoMock ==
    [mock_tasks |-> [t \in MockTasks |-> NoMockTask],
     task_counter |-> 0,
     running_tasks |-> {},
     file |-> [mock_tasks |-> [t \in MockTasks |-> NoMockTask],
               task_counter |-> 0],
     queries |-> [q \in Callers |-> IdleCaller],
     reported |-> [t \in MockTasks |-> "none"],
     response |-> 0,
     calls |-> 0,
     restarts |-> 0]

\* ------------------------------------------------ AppTaskManager (v2)
MaxAppItems == 3
MaxAppFail == 1
MaxAppCancel == 1
MaxAppRetryOps == 1
MaxAppRestart == 1
MaxAppThreads == 4

MAX_CONCURRENT_TASKS == 2
MAX_RETRY_COUNT_APP == 5
EmptyParams == 0
NotSubmitted == -1

AppItems == 1..MaxAppItems

NoAppMission ==
    [status |-> "absent", total_count |-> 0, completed_count |-> 0,
     failed_count |-> 0]

NoAppItem ==
    [status |-> "absent", retry_count |-> 0, runninghub_task_id |-> NULL,
     input_params |-> EmptyParams]

\* a new AppTaskManager() over empty app_missions / app_mission_items tables
NoApp ==
    [mission |-> NoAppMission,
     items |-> [i \in AppItems |-> NoAppItem],
     item_queue |-> <<>>,
     running_tasks |-> {},
     threads |-> {},
     spawned |-> 0,
     nodes |-> [i \in AppItems |-> NotSubmitted],
     budget |-> [fail |-> MaxAppFail, cancel |-> MaxAppCancel,
                 retry |-> MaxAppRetryOps, crash |-> MaxAppRestart]]

\* ------------------------------------------------------ PlatformManager
MaxPlatforms == 3
MaxDepth == 5
Platforms == {"runninghub", "midjourney", "other"}

\* no submit_task_with_platform call has been made
NoCall ==
    [pc |-> "idle", available |-> <<>>, adapters |-> {},
     strategy |-> "specified", platform_id |-> "none",
     attempted_platforms |-> <<>>, tried |-> <<>>, result |-> "none",
     depth |-> 0]

\* ------------------------------------------------------------------ Init
InitWith(b, mc) ==
    /\ now = 0
    /\ mission = [m \in Missions |-> NoMission]
    /\ item = [i \in Items |-> NoItem]
    /\ item_queue = <<>>
    /\ current_concurrent = 0
    /\ max_concurrent = mc
    /\ items_to_process = <<>>
    /\ submit_result = "none"
    /\ polling = {}
    /\ monitors = [m \in Missions |-> 0]
    /\ tasks = <<>>
    /\ adding = {}
    /\ creating = {}
    /\ mock = NoMock
    /\ app = NoApp
    /\ pm = NoCall
    /\ budget = b

Init ==
    InitWith([fail |-> MaxFail, cancel |-> MaxCancel, retry |-> MaxRetryOps,
              crash |-> MaxCrash, transport |-> 0,
              badcreate |-> 0, storeerr |-> 0, items |-> MaxItems,
              tasks |-> MaxTasks],
             MaxConcurrent)

\* ---------------------------------------------------------- add_to_queue
\* SELECT * FROM api_mission_items WHERE api_mission_id = ? AND
\* status = 'pending' ORDER BY item_index, read from the item rows its
PendingSeq(its, m) ==
    SortById({i \in Items : MissionOf(i) = m /\ its[i].status = "pending"})

\* the queue add_to_queue(m) leaves behind
AddToQueueQueue(q, ms, its, m) ==
    IF ms[m].status = "absent" THEN q
    ELSE q \o [k \in 1..Len(PendingSeq(its, m)) |->
                 [item |-> PendingSeq(its, m)[k],
                  next_retry_at |-> its[PendingSeq(its, m)[k]].next_retry_at]]

\* the mission rows add_to_queue(m) leaves behind
AddToQueueMission(ms, its, m) ==
    IF ms[m].status = "absent" \/ PendingSeq(its, m) = <<>>
    THEN ms
    ELSE [ms EXCEPT ![m].status = "queued"]

\* ---------------------------------------------------- create_api_mission
\* the two validations: not batch_input, and scheduled_dt < now - 5 s
CreateRejects_EmptyAccepted(n, sched) ==
    sched # NULL /\ sched < now - SCHEDULED_PAST_TOLERANCE

CreateRejects(n, sched) ==
    \/ n = 0
    \/ sched # NULL /\ sched < now - SCHEDULED_PAST_TOLERANCE

\* the INSERTs of the mission and its items, then add_to_queue unless the
\* mission is scheduled
InsertedItems(m, n) ==
    [i \in Items |->
        IF MissionOf(i) = m /\ IndexOf(i) <= n
        THEN [NoItem EXCEPT !.status = "pending"] ELSE item[i]]

InsertedMission(m, n, sched) ==
    [mission EXCEPT ![m] =
        [status |-> IF sched = NULL THEN "queued" ELSE "scheduled",
         total_count |-> n, completed_count |-> 0,
         failed_count |-> 0, scheduled_time |-> sched]]

CreateRows(m, n, sched) ==
    LET its == InsertedItems(m, n)
        ms == InsertedMission(m, n, sched)
    IN  /\ item' = its
        /\ IF sched = NULL
           THEN /\ item_queue' = AddToQueueQueue(item_queue, ms, its, m)
                /\ mission' = AddToQueueMission(ms, its, m)
           ELSE /\ item_queue' = item_queue
                /\ mission' = ms

CreateMission(m, n, sched) ==
    /\ mission[m].status = "absent"
    /\ ~CreateRejects(n, sched)
    /\ CreateRows(m, n, sched)
    /\ Len(item_queue') <= MaxQueue
    /\ UNCHANGED <<adding, creating>>
    /\ UNCHANGED <<mock, app, pm>>
    /\ UNCHANGED <<now, current_concurrent, max_concurrent, items_to_process,
                   submit_result, polling, monitors, tasks, budget>>

Create ==
    \E m \in Missions, n \in 1..MaxItems, sched \in {NULL, now + SchedAhead} :
        /\ n <= budget.items
        /\ CreateMission(m, n, sched)

\* a create request with an empty batch_input or with a scheduled_time more
\* than 5 seconds old: the ValueError leaves everything as it was
CreateInvalid ==
    \E m \in Missions, n \in 0..MaxItems,
       sched \in {NULL, now - SCHEDULED_PAST_TOLERANCE - 1, now + SchedAhead} :
        /\ n = 0 \/ (sched # NULL /\ sched < now - SCHEDULED_PAST_TOLERANCE)
        /\ n <= budget.items
        /\ budget.badcreate > 0
        /\ budget' = [budget EXCEPT !.badcreate = @ - 1]
        /\ IF CreateRejects(n, sched)
           THEN UNCHANGED <<mission, item, item_queue>>
           ELSE /\ mission[m].status = "absent"
                /\ CreateRows(m, n, sched)
        /\ UNCHANGED <<adding, creating>>
        /\ UNCHANGED <<mock, app, pm>>
        /\ UNCHANGED <<now, current_concurrent, max_concurrent,
                       items_to_process, submit_result, polling, monitors,
                       tasks>>

\* -------------------------------------------------------- _consumer_loop
\* the while loop of one pass, run under queue_lock: q is what is left of
\* item_queue, c the counter, temp the holding deque, batch the admitted
RECURSIVE ConsumerPass(_, _, _, _)
ConsumerPass(q, c, temp, batch) ==
    IF q = <<>> \/ ~(c < max_concurrent)
    THEN [queue |-> Reverse(temp) \o q, concurrent |-> c, batch |-> batch]
    ELSE LET item_data == Head(q)
         IN  IF item_data.next_retry_at # NULL /\ item_data.next_retry_at > now
             THEN ConsumerPass(Tail(q), c, temp \o <<item_data>>, batch)
             ELSE ConsumerPass(Tail(q), c + 1, temp, batch \o <<item_data>>)

ConsumerAdmit ==
    /\ items_to_process = <<>>
    /\ LET r == ConsumerPass(item_queue, current_concurrent, <<>>, <<>>)
       IN  /\ r.batch # <<>> \/ r.queue # item_queue
           /\ item_queue' = r.queue
           /\ current_concurrent' = r.concurrent
           /\ items_to_process' = r.batch
    /\ UNCHANGED <<adding, creating>>
    /\ UNCHANGED <<mock, app, pm>>
    /\ UNCHANGED <<now, mission, item, max_concurrent, submit_result, polling,
                   monitors, tasks, budget>>

\* ------------------------------------- _update_mission_status_to_running
UpdateMissionStatusToRunning(ms, m) ==
    IF ms[m].status = "queued" THEN [ms EXCEPT ![m].status = "running"] ELSE ms

MonitorsStarted(ms, m) ==
    IF ms[m].status = "queued" THEN [monitors EXCEPT ![m] = @ + 1] ELSE monitors

\* ------------------------------------------ platform_manager.submit_task
\* the item rows after the platform manager has recorded the submission
RecordSubmission(its, i, task_id) ==
    [its EXCEPT ![i].platform_id = "runninghub", ![i].platform_task_id = task_id]

\* the consumer submits the head of its batch and the provider accepts it
SubmitAccepted ==
    /\ items_to_process # <<>>
    /\ submit_result = "none"
    /\ Len(tasks) < budget.tasks
    /\ LET i == Head(items_to_process).item
           m == MissionOf(i)
       IN  /\ mission' = UpdateMissionStatusToRunning(mission, m)
           /\ monitors' = MonitorsStarted(mission, m)
           /\ tasks' = Append(tasks, [item |-> i, retry_count |-> item[i].retry_count])
           /\ item' = RecordSubmission(item, i, Len(tasks) + 1)
    /\ submit_result' = "success"
    /\ UNCHANGED <<adding, creating>>
    /\ UNCHANGED <<mock, app, pm>>
    /\ UNCHANGED <<now, item_queue, current_concurrent, max_concurrent,
                   items_to_process, polling, budget>>

\* the consumer submits the head of its batch and the submission fails
SubmitRejected ==
    /\ items_to_process # <<>>
    /\ submit_result = "none"
    /\ budget.fail > 0
    /\ LET i == Head(items_to_process).item
           m == MissionOf(i)
       IN  /\ mission' = UpdateMissionStatusToRunning(mission, m)
           /\ monitors' = MonitorsStarted(mission, m)
           /\ item' = RecordSubmission(item, i, NULL)
    /\ submit_result' = "failed"
    /\ budget' = [budget EXCEPT !.fail = @ - 1]
    /\ UNCHANGED <<adding, creating>>
    /\ UNCHANGED <<mock, app, pm>>
    /\ UNCHANGED <<now, item_queue, current_concurrent, max_concurrent,
                   items_to_process, polling, tasks>>

\* --------------------------------------------- the retry decision
\* UPDATE ... SET status = 'pending', retry_count = ?, platform_task_id =
\* NULL, next_retry_at = ?  or  SET status = 'failed', next_retry_at = NULL,
\* decided on the retry_count read from the row
RetryOrFail_OffByOne(row) ==
    IF row.retry_count <= MAX_RETRY_COUNT
    THEN [row EXCEPT !.status = "pending",
                     !.retry_count = row.retry_count + 1,
                     !.platform_task_id = NULL,
                     !.next_retry_at = now + calculate_retry_delay(row.retry_count)]
    ELSE [row EXCEPT !.status = "failed", !.next_retry_at = NULL]

RetryOrFail(row) ==
    IF row.retry_count < MAX_RETRY_COUNT
    THEN [row EXCEPT !.status = "pending",
                     !.retry_count = row.retry_count + 1,
                     !.platform_task_id = NULL,
                     !.next_retry_at = now + calculate_retry_delay(row.retry_count)]
    ELSE [row EXCEPT !.status = "failed", !.next_retry_at = NULL]

\* ----------------------------------------- _handle_task_submission_success
\* and _create_and_start_polling_task, on the re-read row
HandleTaskSubmissionSuccess ==
    /\ items_to_process # <<>>
    /\ submit_result = "success"
    /\ LET i == Head(items_to_process).item
       IN  /\ item' = [item EXCEPT ![i].status = "processing"]
           /\ polling' =
                IF item[i].platform_task_id # NULL
                THEN polling \cup {[item |-> i,
                                    platform_task_id |-> item[i].platform_task_id,
                                    pc |-> "poll", loaded |-> 0]}
                ELSE polling
    /\ items_to_process' = Tail(items_to_process)
    /\ submit_result' = "none"
    /\ UNCHANGED <<adding, creating>>
    /\ UNCHANGED <<mock, app, pm>>
    /\ UNCHANGED <<now, mission, item_queue, current_concurrent, max_concurrent,
                   monitors, tasks, budget>>

\* the UPDATE to 'processing' of _handle_task_submission_success raises: the
\* except of _submit_and_start_polling hands the error to
\* _handle_task_submission_failure; if the store answers again the item is
\* sent to backoff, if not the error reaches the consumer's except, which
\* gives the unit of current_concurrent back
SubmissionSuccessStoreError(store_recovers) ==
    /\ items_to_process # <<>>
    /\ submit_result = "success"
    /\ budget.storeerr > 0
    /\ LET i == Head(items_to_process).item
       IN  IF store_recovers
           THEN /\ item' = [item EXCEPT ![i] = RetryOrFail(item[i])]
                /\ UNCHANGED current_concurrent
           ELSE /\ \A v \in polling : v.pc # "decrement"
                /\ current_concurrent' = current_concurrent - 1
                /\ UNCHANGED item
    /\ items_to_process' = Tail(items_to_process)
    /\ submit_result' = "none"
    /\ budget' = [budget EXCEPT !.storeerr = @ - 1]
    /\ UNCHANGED <<adding, creating>>
    /\ UNCHANGED <<mock, app, pm>>
    /\ UNCHANGED <<now, mission, item_queue, max_concurrent, polling, monitors,
                   tasks>>

\* ----------------------------------------- _handle_task_submission_failure
HandleTaskSubmissionFailure ==
    /\ items_to_process # <<>>
    /\ submit_result = "failed"
    /\ LET i == Head(items_to_process).item
       IN  item' = [item EXCEPT ![i] = RetryOrFail(item[i])]
    /\ items_to_process' = Tail(items_to_process)
    /\ submit_result' = "none"
    /\ UNCHANGED <<adding, creating>>
    /\ UNCHANGED <<mock, app, pm>>
    /\ UNCHANGED <<now, mission, item_queue, current_concurrent, max_concurrent,
                   polling, monitors, tasks, budget>>

\* -------------------------------------------------------- _polling_worker
Moved(w, pc) == (polling \ {w}) \cup {[w EXCEPT !.pc = pc]}

\* query_task reports SUCCESS with a result url
PollSuccess(w) ==
    /\ w.pc = "poll"
    /\ item' = [item EXCEPT ![w.item].status = "completed"]
    /\ polling' = Moved(w, "cleanup")
    /\ UNCHANGED <<adding, creating>>
    /\ UNCHANGED <<mock, app, pm>>
    /\ UNCHANGED <<now, mission, item_queue, current_concurrent, max_concurrent,
                   items_to_process, submit_result, monitors, tasks, budget>>

\* query_task reports SUCCESS and no result url can be extracted
PollNoResult(w) ==
    /\ w.pc = "poll"
    /\ budget.fail > 0
    /\ item' = [item EXCEPT ![w.item].status = "failed"]
    /\ polling' = Moved(w, "cleanup")
    /\ budget' = [budget EXCEPT !.fail = @ - 1]
    /\ UNCHANGED <<adding, creating>>
    /\ UNCHANGED <<mock, app, pm>>
    /\ UNCHANGED <<now, mission, item_queue, current_concurrent, max_concurrent,
                   items_to_process, submit_result, monitors, tasks>>

\* query_task reports FAILED (or _query_task_status caught an exception)
PollFailed(w) ==
    /\ w.pc = "poll"
    /\ budget.fail > 0
    /\ item' = [item EXCEPT ![w.item] = RetryOrFail(item[w.item])]
    /\ polling' = Moved(w, "cleanup")
    /\ budget' = [budget EXCEPT !.fail = @ - 1]
    /\ UNCHANGED <<adding, creating>>
    /\ UNCHANGED <<mock, app, pm>>
    /\ UNCHANGED <<now, mission, item_queue, current_concurrent, max_concurrent,
                   items_to_process, submit_result, monitors, tasks>>

\* ------------------------------------------------------ _query_task_status
\* what the worker is handed for an answer of adapter.query_task: an
\* exception is caught and turned into a FAILED result
QueryTaskStatus(answer) ==
    IF answer = "exception" THEN "FAILED" ELSE answer

\* adapter.query_task raises a transport error
PollTransportError(w) ==
    /\ w.pc = "poll"
    /\ budget.transport > 0
    /\ IF QueryTaskStatus("exception") = "FAILED"
       THEN /\ item' = [item EXCEPT ![w.item] = RetryOrFail(item[w.item])]
            /\ polling' = Moved(w, "cleanup")
       ELSE UNCHANGED <<item, polling>>
    /\ budget' = [budget EXCEPT !.transport = @ - 1]
    /\ UNCHANGED <<adding, creating>>
    /\ UNCHANGED <<mock, app, pm>>
    /\ UNCHANGED <<now, mission, item_queue, current_concurrent, max_concurrent,
                   items_to_process, submit_result, monitors, tasks>>

\* with self.lock: ... self.current_concurrent -= 1, the load of the counter.
\* self.lock excludes the other workers, not the consumer (queue_lock).
WorkerLoadConcurrent(w) ==
    /\ w.pc = "cleanup"
    /\ \A v \in polling : v.pc # "decrement"
    /\ polling' = (polling \ {w}) \cup
                    {[w EXCEPT !.pc = "decrement", !.loaded = current_concurrent]}
    /\ UNCHANGED <<adding, creating>>
    /\ UNCHANGED <<mock, app, pm>>
    /\ UNCHANGED <<now, mission, item, item_queue, current_concurrent,
                   max_concurrent, items_to_process, submit_result, monitors,
                   tasks, budget>>

\* -------------------------------------------------------- _update_progress
UpdateProgress(ms, its, m) ==
    [ms EXCEPT ![m].completed_count =
                  Cardinality({i \in Items : MissionOf(i) = m
                                 /\ its[i].status = "completed"}),
               ![m].failed_count =
                  Cardinality({i \in Items : MissionOf(i) = m
                                 /\ its[i].status = "failed"})]

\* the store of the counter, the release of self.lock, _update_progress and
\* the end of the thread
WorkerStoreConcurrent(w) ==
    /\ w.pc = "decrement"
    /\ current_concurrent' = w.loaded - 1
    /\ polling' = polling \ {w}
    /\ mission' = UpdateProgress(mission, item, MissionOf(w.item))
    /\ UNCHANGED <<adding, creating>>
    /\ UNCHANGED <<mock, app, pm>>
    /\ UNCHANGED <<now, item, item_queue, max_concurrent, items_to_process,
                   submit_result, monitors, tasks, budget>>

\* the worker's exit when _update_progress raises after the counter was
\* stored: the outer except takes self.lock again and decrements once more
WorkerStoreProgressError(w) ==
    /\ w.pc = "decrement"
    /\ budget.storeerr > 0
    /\ current_concurrent' = (w.loaded - 1) - 1
    /\ polling' = polling \ {w}
    /\ budget' = [budget EXCEPT !.storeerr = @ - 1]
    /\ UNCHANGED <<adding, creating>>
    /\ UNCHANGED <<mock, app, pm>>
    /\ UNCHANGED <<now, mission, item, item_queue, max_concurrent,
                   items_to_process, submit_result, monitors, tasks>>

\* ------------------------------------------- _monitor_mission_completion
MonitorMissionCompletion(m) ==
    /\ monitors[m] > 0
    /\ {i \in ItemsOf(m) : item[i].status \in {"pending", "processing"}} = {}
    /\ mission' = [mission EXCEPT ![m].status = "completed"]
    /\ monitors' = [monitors EXCEPT ![m] = @ - 1]
    /\ UNCHANGED <<adding, creating>>
    /\ UNCHANGED <<mock, app, pm>>
    /\ UNCHANGED <<now, item, item_queue, current_concurrent, max_concurrent,
                   items_to_process, submit_result, polling, tasks, budget>>

\* ----------------------------------------------------- _retry_checker_loop
DueItems ==
    {i \in Items : /\ item[i].status = "pending"
                   /\ item[i].next_retry_at # NULL
                   /\ item[i].next_retry_at <= now}

RetryCheckerQueue(q) ==
    q \o [k \in 1..Len(SortByRetryAt(DueItems)) |->
            [item |-> SortByRetryAt(DueItems)[k],
             next_retry_at |-> item[SortByRetryAt(DueItems)[k]].next_retry_at]]

RetryChecker ==
    /\ DueItems # {}
    /\ item_queue' = RetryCheckerQueue(item_queue)
    /\ Len(item_queue') <= MaxQueue
    /\ UNCHANGED <<adding, creating>>
    /\ UNCHANGED <<mock, app, pm>>
    /\ UNCHANGED <<now, mission, item, current_concurrent, max_concurrent,
                   items_to_process, submit_result, polling, monitors, tasks,
                   budget>>

\* ------------------------------- TaskScheduler._check_and_execute_due_tasks
SchedulerRun(m) ==
    /\ mission[m].status = "scheduled"
    /\ mission[m].scheduled_time # NULL
    /\ mission[m].scheduled_time <= now
    /\ LET ms == [mission EXCEPT ![m].status = "queued"]
       IN  /\ item_queue' = AddToQueueQueue(item_queue, ms, item, m)
           /\ mission' = AddToQueueMission(ms, item, m)
    /\ Len(item_queue') <= MaxQueue
    /\ UNCHANGED <<adding, creating>>
    /\ UNCHANGED <<mock, app, pm>>
    /\ UNCHANGED <<now, item, current_concurrent, max_concurrent,
                   items_to_process, submit_result, polling, monitors, tasks,
                   budget>>

\* ------------------------- add_to_queue as the two steps its thread takes
\* create_api_mission up to the release of queue_lock inside add_to_queue
CreatePush(m, n, sched) ==
    /\ mission[m].status = "absent"
    /\ ~CreateRejects(n, sched)
    /\ item' = InsertedItems(m, n)
    /\ mission' = InsertedMission(m, n, sched)
    /\ item_queue' = IF sched = NULL
                     THEN AddToQueueQueue(item_queue, mission', item', m)
                     ELSE item_queue
    /\ adding' = IF sched = NULL /\ PendingSeq(item', m) # <<>>
                 THEN adding \cup {m} ELSE adding
    /\ UNCHANGED creating
    /\ Len(item_queue') <= MaxQueue
    /\ UNCHANGED <<mock, app, pm>>
    /\ UNCHANGED <<now, current_concurrent, max_concurrent, items_to_process,
                   submit_result, polling, monitors, tasks, budget>>

CreateWithWindow ==
    \E m \in Missions, n \in 1..MaxItems, sched \in {NULL, now + SchedAhead} :
        /\ n <= budget.items
        /\ CreatePush(m, n, sched)

\* the scheduler's UPDATE to 'queued' and add_to_queue up to the release of
\* queue_lock
SchedulerPush(m) ==
    /\ mission[m].status = "scheduled"
    /\ mission[m].scheduled_time # NULL
    /\ mission[m].scheduled_time <= now
    /\ mission' = [mission EXCEPT ![m].status = "queued"]
    /\ item_queue' = AddToQueueQueue(item_queue, mission', item, m)
    /\ adding' = IF PendingSeq(item, m) # <<>> THEN adding \cup {m} ELSE adding
    /\ UNCHANGED creating
    /\ Len(item_queue') <= MaxQueue
    /\ UNCHANGED <<mock, app, pm>>
    /\ UNCHANGED <<now, item, current_concurrent, max_concurrent,
                   items_to_process, submit_result, polling, monitors, tasks,
                   budget>>

\* the UPDATE api_missions SET status = 'queued' that ends add_to_queue
AddToQueueUpdate(m) ==
    /\ m \in adding
    /\ mission' = [mission EXCEPT ![m].status = "queued"]
    /\ adding' = adding \ {m}
    /\ UNCHANGED creating
    /\ UNCHANGED <<mock, app, pm>>
    /\ UNCHANGED <<now, item, item_queue, current_concurrent, max_concurrent,
                   items_to_process, submit_result, polling, monitors, tasks,
                   budget>>

\* ------------- create_api_mission as the committed statements it executes
\* the INSERT of the mission row; every execute_sql call commits by itself
CreateInsertMission(m, n, sched) ==
    /\ mission[m].status = "absent"
    /\ ~CreateRejects(n, sched)
    /\ mission' = InsertedMission(m, n, sched)
    /\ creating' = creating \cup {m}
    /\ UNCHANGED <<now, item, item_queue, current_concurrent, max_concurrent,
                   items_to_process, submit_result, polling, monitors, tasks,
                   adding, mock, app, pm, budget>>

CreateBegin ==
    \E m \in Missions, n \in 1..MaxItems, sched \in {NULL, now + SchedAhead} :
        /\ n <= budget.items
        /\ CreateInsertMission(m, n, sched)

\* the INSERT of the next item row
CreateInsertItem(m) ==
    /\ m \in creating
    /\ Cardinality(ItemsOf(m)) < mission[m].total_count
    /\ item' = InsertedItems(m, Cardinality(ItemsOf(m)) + 1)
    /\ UNCHANGED <<now, mission, item_queue, current_concurrent,
                   max_concurrent, items_to_process, submit_result, polling,
                   monitors, tasks, adding, creating, mock, app, pm,
                   budget>>

\* after the last item row: add_to_queue unless scheduled_time was given
CreateEnd(m) ==
    /\ m \in creating
    /\ Cardinality(ItemsOf(m)) = mission[m].total_count
    /\ IF mission[m].scheduled_time = NULL
       THEN /\ item_queue' = AddToQueueQueue(item_queue, mission, item, m)
            /\ mission' = AddToQueueMission(mission, item, m)
       ELSE UNCHANGED <<item_queue, mission>>
    /\ Len(item_queue') <= MaxQueue
    /\ creating' = creating \ {m}
    /\ UNCHANGED <<now, item, current_concurrent, max_concurrent,
                   items_to_process, submit_result, polling, monitors, tasks,
                   adding, mock, app, pm, budget>>

\* ------------------------------------------------------------------ time
\* the clock moves to the next instant some stored deadline falls due
Deadlines ==
    {item[i].next_retry_at : i \in Items} \cup
    {mission[m].scheduled_time : m \in Missions}

Tick ==
    /\ \E t \in Deadlines : /\ t > now
                            /\ now' = t
    /\ UNCHANGED <<adding, creating>>
    /\ UNCHANGED <<mock, app, pm>>
    /\ UNCHANGED <<mission, item, item_queue, current_concurrent, max_concurrent,
                   items_to_process, submit_result, polling, monitors, tasks,
                   budget>>

\* --------------------------------- POST /api_missions/{id}/cancel
\* the route and database.cancel_api_mission
CancelMission(ms, m) ==
    IF ms[m].status \in {"scheduled", "queued", "running"}
    THEN [ms EXCEPT ![m].status = "cancelled"] ELSE ms

CancelItems(ms, its, m) ==
    IF ms[m].status \in {"queued", "running"}
    THEN [i \in Items |->
            IF MissionOf(i) = m /\ its[i].status \in {"pending", "processing"}
            THEN [its[i] EXCEPT !.status = "failed"] ELSE its[i]]
    ELSE its

Cancel(m) ==
    /\ mission[m].status # "absent"
    /\ budget.cancel > 0
    /\ mission' = CancelMission(mission, m)
    /\ item' = CancelItems(mission, item, m)
    /\ budget' = [budget EXCEPT !.cancel = @ - 1]
    /\ UNCHANGED <<adding, creating>>
    /\ UNCHANGED <<mock, app, pm>>
    /\ UNCHANGED <<now, item_queue, current_concurrent, max_concurrent,
                   items_to_process, submit_result, polling, monitors, tasks>>

\* ---------------------------------- POST /api_missions/{id}/retry
\* database.retry_api_mission followed by add_to_queue
RetryItems(its, m) ==
    [i \in Items |->
        IF MissionOf(i) = m /\ its[i].status = "failed"
        THEN [its[i] EXCEPT !.status = "pending", !.platform_task_id = NULL]
        ELSE its[i]]

RetryMissionRow(ms, its, m) ==
    IF {i \in Items : MissionOf(i) = m /\ its[i].status = "failed"} = {}
    THEN ms
    ELSE [ms EXCEPT ![m].status = "queued"]

Retry(m) ==
    /\ mission[m].status # "absent"
    /\ budget.retry > 0
    /\ LET its == RetryItems(item, m)
           ms == RetryMissionRow(mission, item, m)
       IN  /\ item' = its
           /\ item_queue' = AddToQueueQueue(item_queue, ms, its, m)
           /\ mission' = AddToQueueMission(ms, its, m)
    /\ Len(item_queue') <= MaxQueue
    /\ budget' = [budget EXCEPT !.retry = @ - 1]
    /\ UNCHANGED <<adding, creating>>
    /\ UNCHANGED <<mock, app, pm>>
    /\ UNCHANGED <<now, current_concurrent, max_concurrent, items_to_process,
                   submit_result, polling, monitors, tasks>>

\* ---------------------------------------- process crash, then start()
\* _restore_tasks step 1: pending items of missions that are not scheduled,
\* without next_retry_at, ORDER BY i.id
RestoredQueueOf(ms) ==
    [k \in 1..Len(SortById({i \in Items :
                              /\ item[i].status = "pending"
                              /\ ms[MissionOf(i)].status # "scheduled"
                              /\ item[i].next_retry_at = NULL})) |->
        [item |-> SortById({i \in Items :
                              /\ item[i].status = "pending"
                              /\ ms[MissionOf(i)].status # "scheduled"
                              /\ item[i].next_retry_at = NULL})[k],
         next_retry_at |-> NULL]]

RestoredQueue == RestoredQueueOf(mission)

\* step 2: a polling worker and one unit of current_concurrent for every
\* processing item that has a platform_task_id
RestoredPolling ==
    {[item |-> i, platform_task_id |-> item[i].platform_task_id,
      pc |-> "poll", loaded |-> 0] :
        i \in {j \in Items : /\ item[j].status = "processing"
                             /\ item[j].platform_task_id # NULL}}

\* step 3: missions with a pending or processing item
MissionsToRestore ==
    {m \in Missions : /\ mission[m].status \in {"running", "queued"}
                      /\ \E i \in ItemsOf(m) :
                            item[i].status \in {"pending", "processing"}}

CrashAndRestart ==
    /\ budget.crash > 0
    /\ \E m \in Missions : mission[m].status # "absent"
    /\ item_queue' = RestoredQueue
    /\ polling' = RestoredPolling
    /\ current_concurrent' = Cardinality(RestoredPolling)
    /\ mission' = [m \in Missions |->
                     IF m \in MissionsToRestore
                     THEN [mission[m] EXCEPT !.status = "running"]
                     ELSE mission[m]]
    /\ monitors' = [m \in Missions |-> IF m \in MissionsToRestore THEN 1 ELSE 0]
    /\ items_to_process' = <<>>
    /\ submit_result' = "none"
    /\ budget' = [budget EXCEPT !.crash = @ - 1]
    /\ adding' = {}
    /\ creating' = {}
    /\ UNCHANGED <<mock, app, pm>>
    /\ UNCHANGED <<now, item, max_concurrent, tasks>>

\* ------------- restart after a downtime: start() and the scheduler thread
\* TaskScheduler._restore_scheduled_tasks at instant t: a scheduled mission
\* more than 10 minutes late is marked failed
RestoreScheduledTasks(ms, t) ==
    [m \in Missions |->
        IF /\ ms[m].status = "scheduled"
           /\ ms[m].scheduled_time # NULL
           /\ ms[m].scheduled_time < t - SCHEDULED_EXPIRY
        THEN [ms[m] EXCEPT !.status = "failed"]
        ELSE ms[m]]

\* the process is down for d seconds and starts again; the scheduler
\* thread's restore runs before or after ApiTaskManager._restore_tasks
RestartAfterDowntime(d, scheduler_first) ==
    /\ budget.crash > 0
    /\ \E m \in Missions : mission[m].status # "absent"
    /\ now' = now + d
    /\ LET expired == RestoreScheduledTasks(mission, now + d)
       IN  /\ item_queue' = RestoredQueueOf(IF scheduler_first THEN expired
                                                              ELSE mission)
           /\ mission' = [m \in Missions |->
                            IF m \in MissionsToRestore
                            THEN [mission[m] EXCEPT !.status = "running"]
                            ELSE expired[m]]
    /\ polling' = RestoredPolling
    /\ current_concurrent' = Cardinality(RestoredPolling)
    /\ monitors' = [m \in Missions |-> IF m \in MissionsToRestore THEN 1 ELSE 0]
    /\ items_to_process' = <<>>
    /\ submit_result' = "none"
    /\ budget' = [budget EXCEPT !.crash = @ - 1]
    /\ adding' = {}
    /\ creating' = {}
    /\ UNCHANGED <<mock, app, pm>>
    /\ UNCHANGED <<item, max_concurrent, tasks>>

Restart ==
    \E d \in {0, SCHEDULED_EXPIRY + SchedAhead + 1},
       scheduler_first \in BOOLEAN :
        RestartAfterDowntime(d, scheduler_first)

\* ---------------------------------------------------------- MockApiClient
engine == <<mission, item, item_queue, current_concurrent, max_concurrent,
            items_to_process, submit_result, polling, monitors, tasks, adding,
            creating, budget>>

\* len(self.running_tasks) >= self.max_concurrent
RunningSetFull_OffByOne(running) == Cardinality(running) > MockMaxConcurrent

RunningSetFull(running) == Cardinality(running) >= MockMaxConcurrent

\* what _save_state_unsafe writes
SavedState(mt, counter) == [mock_tasks |-> mt, task_counter |-> counter]

\* submit_task, all of it under self.lock; valid is what _validate_params
\* answers and et the execution_time drawn
MockSubmitTask(valid, et) ==
    /\ mock.calls < MaxMockTasks
    /\ IF RunningSetFull(mock.running_tasks)
       THEN mock' = [mock EXCEPT !.calls = @ + 1, !.response = 429]
       ELSE IF ~valid
       THEN mock' = [mock EXCEPT !.calls = @ + 1, !.response = 400,
                                 !.task_counter = @ + 1]
       ELSE LET id == mock.task_counter + 1
                mt == [mock.mock_tasks EXCEPT ![id] =
                          [status |-> "QUEUED", created_at |-> now,
                           execution_time |-> et]]
            IN  mock' = [mock EXCEPT !.calls = @ + 1, !.response = 200,
                                     !.task_counter = id,
                                     !.mock_tasks = mt,
                                     !.running_tasks = @ \cup {id},
                                     !.file = SavedState(mt, id)]
    /\ UNCHANGED now
    /\ UNCHANGED engine
    /\ UNCHANGED <<app, pm>>

MockSubmit ==
    \E valid \in BOOLEAN, et \in min_execution_time..MaxExecution :
        MockSubmitTask(valid, et)

\* query_task up to the choice of its branch by the elapsed time
MockQueryStart(q, t) ==
    /\ mock.queries[q].pc = "idle"
    /\ mock.mock_tasks[t].status # "absent"
    /\ LET elapsed == now - mock.mock_tasks[t].created_at
           branch == IF elapsed < QUEUED_SECONDS THEN "QUEUED"
                     ELSE IF elapsed < mock.mock_tasks[t].execution_time
                     THEN "RUNNING" ELSE "final"
       IN  mock' = [mock EXCEPT !.queries[q] = [pc |-> branch, task |-> t,
                                             seen |-> mock.reported[t]]]
    /\ UNCHANGED now
    /\ UNCHANGED engine
    /\ UNCHANGED <<app, pm>>

\* task["status"] = "QUEUED" or "RUNNING", and the answer
MockQueryStage(q) ==
    /\ mock.queries[q].pc \in {"QUEUED", "RUNNING"}
    /\ LET t == mock.queries[q].task
           st == mock.queries[q].pc
       IN  mock' = [mock EXCEPT !.mock_tasks[t].status = st,
                                !.reported[t] = st,
                                !.queries[q] = IdleCaller]
    /\ UNCHANGED now
    /\ UNCHANGED engine
    /\ UNCHANGED <<app, pm>>

\* the test of task["status"] after the execution time: either the removal
\* from running_tasks under self.lock, or the stored result as the answer
MockQueryFinal(q) ==
    /\ mock.queries[q].pc = "final"
    /\ LET t == mock.queries[q].task
       IN  IF mock.mock_tasks[t].status \notin {"SUCCESS", "FAILED"}
           THEN mock' = [mock EXCEPT !.running_tasks = @ \ {t},
                                     !.queries[q].pc = "decide"]
           ELSE mock' = [mock EXCEPT
                            !.reported[t] = mock.mock_tasks[t].status,
                            !.queries[q] = IdleCaller]
    /\ UNCHANGED now
    /\ UNCHANGED engine
    /\ UNCHANGED <<app, pm>>

\* random.random() < success_rate, the write of the result, the save, and
\* the answer
MockQueryDecide(q, outcome) ==
    /\ mock.queries[q].pc = "decide"
    /\ LET t == mock.queries[q].task
           mt == [mock.mock_tasks EXCEPT ![t].status = outcome]
       IN  mock' = [mock EXCEPT !.mock_tasks = mt,
                                !.file = SavedState(mt, mock.task_counter),
                                !.reported[t] = outcome,
                                !.queries[q] = IdleCaller]
    /\ UNCHANGED now
    /\ UNCHANGED engine
    /\ UNCHANGED <<app, pm>>

\* time.time() moves on by one second
MockTick ==
    /\ now < MaxMockTime
    /\ now' = now + 1
    /\ UNCHANGED mock
    /\ UNCHANGED engine
    /\ UNCHANGED <<app, pm>>

\* the process ends and a new MockApiClient() runs _load_state
MockRestart ==
    /\ mock.restarts < MaxMockRestart
    /\ mock' = [mock EXCEPT
                  !.mock_tasks = mock.file.mock_tasks,
                  !.task_counter = mock.file.task_counter,
                  !.running_tasks =
                      {t \in MockTasks : mock.file.mock_tasks[t].status
                                            \in {"QUEUED", "RUNNING"}},
                  !.queries = [q \in Callers |-> IdleCaller],
                  !.restarts = @ + 1]
    /\ UNCHANGED now
    /\ UNCHANGED engine
    /\ UNCHANGED <<app, pm>>

NextMock ==
    \/ MockSubmit
    \/ \E q \in Callers, t \in MockTasks : MockQueryStart(q, t)
    \/ \E q \in Callers : MockQueryStage(q)
    \/ \E q \in Callers : MockQueryFinal(q)
    \/ \E q \in Callers, outcome \in {"SUCCESS", "FAILED"} :
           MockQueryDecide(q, outcome)
    \/ MockTick

SpecMock == Init /\ [][NextMock]_vars

NextMockRestart ==
    \/ NextMock
    \/ MockRestart

SpecMockRestart == Init /\ [][NextMockRestart]_vars

\* ------------------------------------------------------------------ Next
\* ============================================== AppTaskManager (v2)
\* every variable the App engine does not touch
api == <<now, mission, item, item_queue, current_concurrent, max_concurrent,
         items_to_process, submit_result, polling, monitors, tasks, adding,
         creating, mock, pm, budget>>

\* SELECT ... WHERE status = 'pending' ORDER BY item_index, as queue entries
AppPendingEntries(its) ==
    LET ids == SelectSeq([i \in AppItems |-> i],
                         LAMBDA i : its[i].status = "pending")
    IN  [k \in 1..Len(ids) |->
            [item_id |-> ids[k], input_params |-> its[ids[k]].input_params]]

\* ------------------------------------------------ _update_mission_status
AppUpdateMissionStatus(ms, its) ==
    LET total == Cardinality({i \in AppItems : its[i].status # "absent"})
        completed == Cardinality({i \in AppItems : its[i].status = "completed"})
        failed == Cardinality({i \in AppItems : its[i].status = "failed"})
        counted == [ms EXCEPT !.completed_count = completed,
                              !.failed_count = failed]
    IN  IF completed + failed >= total /\ total > 0
        THEN [counted EXCEPT !.status =
                 IF failed > 0 /\ completed = 0 THEN "failed" ELSE "completed"]
        ELSE counted

\* -------------------------------------------------------- create_mission
AppCreateMission(n) ==
    /\ app.mission.status = "absent"
    /\ LET its == [i \in AppItems |->
                     IF i <= n
                     THEN [NoAppItem EXCEPT !.status = "pending",
                                            !.input_params = i]
                     ELSE app.items[i]]
       IN  app' = [app EXCEPT
                     !.mission = [NoAppMission EXCEPT !.status = "queued",
                                                      !.total_count = n],
                     !.items = its,
                     !.item_queue = @ \o AppPendingEntries(its)]
    /\ UNCHANGED api

AppCreate == \E n \in 1..MaxAppItems : AppCreateMission(n)

\* -------------------------------------------------------- cancel_mission
AppCancelMission ==
    /\ app.mission.status # "absent"
    /\ app.budget.cancel > 0
    /\ app' = [app EXCEPT
                 !.mission.status = "cancelled",
                 !.items = [i \in AppItems |->
                              IF app.items[i].status = "pending"
                              THEN [app.items[i] EXCEPT !.status = "cancelled"]
                              ELSE app.items[i]],
                 !.budget.cancel = @ - 1]
    /\ UNCHANGED api

\* ---------------------------------------------------- retry_failed_items
AppRetryFailedItems ==
    /\ app.mission.status # "absent"
    /\ app.budget.retry > 0
    /\ LET failed == {i \in AppItems : app.items[i].status = "failed"}
           its == [i \in AppItems |->
                     IF i \in failed
                     THEN [app.items[i] EXCEPT !.status = "pending",
                                               !.retry_count = 0]
                     ELSE app.items[i]]
       IN  IF failed = {}
           THEN app' = [app EXCEPT !.budget.retry = @ - 1]
           ELSE app' = [app EXCEPT
                          !.items = its,
                          !.mission.status = "queued",
                          !.item_queue = @ \o AppPendingEntries(its),
                          !.budget.retry = @ - 1]
    /\ UNCHANGED api

\* -------------------------------------------------------- _consumer_loop
AppConsumerAdmit ==
    /\ Len(app.item_queue) > 0
    /\ Cardinality(app.running_tasks) < MAX_CONCURRENT_TASKS
    /\ app.spawned < MaxAppThreads
    /\ LET item_data == Head(app.item_queue)
       IN  app' = [app EXCEPT
                     !.item_queue = Tail(@),
                     !.running_tasks = @ \cup {item_data.item_id},
                     !.spawned = @ + 1,
                     !.threads = @ \cup
                        {[item_id |-> item_data.item_id,
                          input_params |-> item_data.input_params,
                          kind |-> "execute", pc |-> "submit",
                          n |-> app.spawned + 1]}]
    /\ UNCHANGED api

\* ---------------------------------------------------------- _execute_item
\* the item row after the retry decision of an except / 805 branch
AppRetryOrFail(row) ==
    IF row.retry_count < MAX_RETRY_COUNT_APP
    THEN [row EXCEPT !.status = "pending", !.retry_count = @ + 1]
    ELSE [row EXCEPT !.status = "failed"]

\* _params_to_nodes: one node per key of the entry's input_params
ParamsToNodes(params) == params

\* UPDATE status = 'processing', submit_task answers code 0, the task id is
\* stored and the mission is set to 'running'; the thread goes on to poll
AppExecuteSubmitted(t) ==
    /\ t.pc = "submit"
    /\ app' = [app EXCEPT
                 !.items[t.item_id] =
                     [@ EXCEPT !.status = "processing",
                               !.runninghub_task_id = 1],
                 !.mission.status = "running",
                 !.nodes[t.item_id] = ParamsToNodes(t.input_params),
                 !.threads = (@ \ {t}) \cup {[t EXCEPT !.pc = "poll"]}]
    /\ UNCHANGED api

\* UPDATE status = 'processing', submit_task answers another code: the item
\* is failed, the raise lands in the except branch, and finally the entry
\* of running_tasks is deleted
AppExecuteRejected(t) ==
    /\ t.pc = "submit"
    /\ app.budget.fail > 0
    /\ LET row == AppRetryOrFail([app.items[t.item_id] EXCEPT
                                     !.status = "failed"])
           its == [app.items EXCEPT ![t.item_id] = row]
       IN  app' = [app EXCEPT
                     !.items = its,
                     !.mission = AppUpdateMissionStatus(
                                    AppUpdateMissionStatus(app.mission,
                                        [app.items EXCEPT
                                            ![t.item_id].status = "failed"]),
                                    its),
                     !.nodes[t.item_id] = ParamsToNodes(t.input_params),
                     !.item_queue =
                        IF row.status = "pending"
                        THEN Append(@, [item_id |-> t.item_id,
                                        input_params |-> t.input_params])
                        ELSE @,
                     !.running_tasks = @ \ {t.item_id},
                     !.threads = @ \ {t},
                     !.budget.fail = @ - 1]
    /\ UNCHANGED api

\* ------------------------------------------------------ _poll_item_status
\* the thread of t ends: only _execute_item has a finally that deletes the
\* entry of running_tasks
AppThreadEnds(t, running) ==
    IF t.kind = "execute" THEN running \ {t.item_id} ELSE running

\* query_task_outputs answers code 0 with data
AppPollSuccess(t) ==
    /\ t.pc = "poll"
    /\ LET its == [app.items EXCEPT ![t.item_id].status = "completed"]
       IN  app' = [app EXCEPT
                     !.items = its,
                     !.mission = AppUpdateMissionStatus(app.mission, its),
                     !.running_tasks = AppThreadEnds(t, @),
                     !.threads = @ \ {t}]
    /\ UNCHANGED api

\* query_task_outputs answers code 805
AppPollFailed(t) ==
    /\ t.pc = "poll"
    /\ app.budget.fail > 0
    /\ LET row == AppRetryOrFail(app.items[t.item_id])
           its == [app.items EXCEPT ![t.item_id] = row]
       IN  app' = [app EXCEPT
                     !.items = its,
                     !.mission = AppUpdateMissionStatus(app.mission, its),
                     !.item_queue =
                        IF row.status = "pending"
                        THEN Append(@, [item_id |-> t.item_id,
                                        input_params |-> EmptyParams])
                        ELSE @,
                     !.running_tasks = AppThreadEnds(t, @),
                     !.threads = @ \ {t},
                     !.budget.fail = @ - 1]
    /\ UNCHANGED api

\* query_task_outputs answers a code that is none of 0, 805, 804, 813 (or
\* code 0 without data): the loop breaks and the row is left as it is
AppPollUnknown(t) ==
    /\ t.pc = "poll"
    /\ app.budget.fail > 0
    /\ app' = [app EXCEPT
                 !.running_tasks = AppThreadEnds(t, @),
                 !.threads = @ \ {t},
                 !.budget.fail = @ - 1]
    /\ UNCHANGED api

\* query_task_outputs raises
AppPollException(t) ==
    /\ t.pc = "poll"
    /\ app.budget.fail > 0
    /\ LET its == [app.items EXCEPT ![t.item_id].status = "failed"]
       IN  app' = [app EXCEPT
                     !.items = its,
                     !.mission = AppUpdateMissionStatus(app.mission, its),
                     !.running_tasks = AppThreadEnds(t, @),
                     !.threads = @ \ {t},
                     !.budget.fail = @ - 1]
    /\ UNCHANGED api

\* --------------------------------------------- start() / _restore_tasks
AppRestart ==
    /\ app.budget.crash > 0
    /\ LET processing == {i \in AppItems :
                             /\ app.items[i].status = "processing"
                             /\ app.items[i].runninghub_task_id # NULL}
           pending == AppPendingEntries(app.items)
       IN  app' = [app EXCEPT
                     !.running_tasks = processing,
                     !.threads = {[item_id |-> i, input_params |-> EmptyParams,
                                   kind |-> "restored", pc |-> "poll",
                                   n |-> 0] : i \in processing},
                     !.spawned = 0,
                     !.mission.status =
                        IF pending # <<>> THEN "queued"
                        ELSE IF processing # {} THEN "running" ELSE @,
                     !.item_queue = pending,
                     !.budget.crash = @ - 1]
    /\ UNCHANGED api

NextApp ==
    \/ AppCreate
    \/ AppCancelMission
    \/ AppRetryFailedItems
    \/ AppConsumerAdmit
    \/ \E t \in app.threads : AppExecuteSubmitted(t)
    \/ \E t \in app.threads : AppExecuteRejected(t)
    \/ \E t \in app.threads : AppPollSuccess(t)
    \/ \E t \in app.threads : AppPollFailed(t)
    \/ \E t \in app.threads : AppPollUnknown(t)
    \/ \E t \in app.threads : AppPollException(t)
    \/ AppRestart

SpecApp == Init /\ [][NextApp]_vars

\* ================================================== PlatformManager
\* every variable a submit_task_with_platform call does not touch
rest == <<now, mission, item, item_queue, current_concurrent, max_concurrent,
          items_to_process, submit_result, polling, monitors, tasks, adding,
          creating, mock, app, budget>>

\* [p['platform_id'] for p in available] as a set
PlatformIds(seq) == {seq[k] : k \in 1..Len(seq)}

\* the lists get_platforms_for_task_type can return
AvailableLists ==
    UNION {[1..n -> Platforms] : n \in 0..MaxPlatforms}

\* -------------------------------------------------------- select_platform
SelectPlatform_IgnoresAttempted(available, strategy, preferred, attempted) ==
    IF available = <<>> THEN "none"
    ELSE IF strategy = "specified" /\ preferred # "none"
    THEN IF preferred \in PlatformIds(available) THEN preferred
         ELSE available[1]
    ELSE IF strategy = "failover"
    THEN IF preferred # "none" /\ preferred \in PlatformIds(available)
         THEN preferred
         ELSE available[1]
    ELSE available[1]

SelectPlatform(available, strategy, preferred, attempted) ==
    IF available = <<>> THEN "none"
    ELSE IF strategy = "specified" /\ preferred # "none"
    THEN IF preferred \in PlatformIds(available) THEN preferred
         ELSE available[1]
    ELSE IF strategy = "failover"
    THEN IF /\ preferred # "none"
            /\ preferred \in PlatformIds(available)
            /\ preferred \notin PlatformIds(attempted)
         THEN preferred
         ELSE LET remaining ==
                    SelectSeq(available,
                              LAMBDA p : p \notin PlatformIds(attempted))
              IN  IF remaining # <<>> THEN remaining[1] ELSE "none"
    ELSE available[1]

\* --------------------------------------------- submit_task_with_platform
\* a caller enters submit_task_with_platform
PmCall(available, adapters, strategy, platform_id, attempted) ==
    /\ pm.pc = "idle"
    /\ pm' = [pc |-> "call", available |-> available, adapters |-> adapters,
              strategy |-> strategy, platform_id |-> platform_id,
              attempted_platforms |-> attempted, tried |-> <<>>,
              result |-> "none", depth |-> 0]
    /\ UNCHANGED rest

PmEnter ==
    /\ pm.pc = "idle"
    /\ \E available \in AvailableLists, adapters \in SUBSET Platforms,
          strategy \in {"specified", "failover", "priority"},
          platform_id \in Platforms \cup {"none"},
          attempted \in {<<>>} \cup {<<p>> : p \in Platforms} :
           PmCall(available, adapters, strategy, platform_id, attempted)

PmReturn(result, tried) ==
    pm' = [pm EXCEPT !.pc = "returned", !.result = result, !.tried = tried]

\* one activation of submit_task_with_platform: select, look up the adapter,
\* submit, and either return or call itself with the longer attempted list.
\* outcome is what adapter.submit_task does: it answers success, answers
\* failure, or it (or the UPDATE after it) raises.
SubmitTaskWithPlatform(outcome) ==
    /\ pm.pc = "call"
    /\ LET selected_platform ==
               SelectPlatform(pm.available, pm.strategy, pm.platform_id,
                              pm.attempted_platforms)
           current_attempted == Append(pm.attempted_platforms,
                                       selected_platform)
           tried == Append(pm.tried, selected_platform)
       IN  IF selected_platform = "none"
           THEN PmReturn("failed", pm.tried)
           ELSE IF selected_platform \notin pm.adapters
           THEN PmReturn("failed", pm.tried)
           ELSE IF outcome = "success"
           THEN PmReturn("success", tried)
           ELSE IF pm.strategy = "failover"
           THEN /\ pm.depth < MaxDepth
                /\ pm' = [pm EXCEPT !.attempted_platforms = current_attempted,
                                    !.tried = tried,
                                    !.depth = @ + 1]
           ELSE PmReturn("failed", tried)
    /\ UNCHANGED rest

PmStep == \E outcome \in {"success", "failure", "exception"} :
              SubmitTaskWithPlatform(outcome)

NextPm ==
    \/ PmEnter
    \/ PmStep

SpecPm == Init /\ [][NextPm]_vars

\* the calling thread keeps running: adapter.submit_task answers or raises
FairPm == SpecPm /\ WF_vars(PmStep)

Next ==
    \/ Create
    \/ ConsumerAdmit
    \/ SubmitAccepted
    \/ SubmitRejected
    \/ HandleTaskSubmissionSuccess
    \/ HandleTaskSubmissionFailure
    \/ \E w \in polling : PollSuccess(w)
    \/ \E w \in polling : PollNoResult(w)
    \/ \E w \in polling : PollFailed(w)
    \/ \E w \in polling : WorkerLoadConcurrent(w)
    \/ \E w \in polling : WorkerStoreConcurrent(w)
    \/ \E m \in Missions : MonitorMissionCompletion(m)
    \/ RetryChecker
    \/ \E m \in Missions : SchedulerRun(m)
    \/ Tick
    \/ \E m \in Missions : Cancel(m)
    \/ \E m \in Missions : Retry(m)
    \/ CrashAndRestart

Spec == Init /\ [][Next]_vars

\* One item driven through every retry: submit errors, provider failures,
\* the retry checker and a manual retry, without crash or cancel.
InitRetry ==
    InitWith([fail |-> MAX_RETRY_COUNT + MaxFail, cancel |-> 0,
              retry |-> MaxRetryOps, crash |-> 0, transport |-> 0,
              badcreate |-> 0, storeerr |-> 0, items |-> 1,
              tasks |-> MAX_RETRY_COUNT + MaxFail], 1)

NextRetry ==
    \/ Create
    \/ ConsumerAdmit
    \/ SubmitAccepted
    \/ SubmitRejected
    \/ HandleTaskSubmissionSuccess
    \/ HandleTaskSubmissionFailure
    \/ \E w \in polling : PollSuccess(w)
    \/ \E w \in polling : PollFailed(w)
    \/ \E w \in polling : WorkerLoadConcurrent(w)
    \/ \E w \in polling : WorkerStoreConcurrent(w)
    \/ \E m \in Missions : MonitorMissionCompletion(m)
    \/ RetryChecker
    \/ Tick
    \/ \E m \in Missions : Retry(m)

SpecRetry == InitRetry /\ [][NextRetry]_vars

\* A run in which the provider accepts and completes everything and the
\* only fault is a process crash.
InitCrash ==
    InitWith([fail |-> 0, cancel |-> 0, retry |-> 0, crash |-> MaxCrash,
              transport |-> 0, badcreate |-> 0, storeerr |-> 0,
              items |-> MaxItems, tasks |-> MaxTasks + MaxItems],
             MaxConcurrent)

NextCrash ==
    \/ Create
    \/ ConsumerAdmit
    \/ SubmitAccepted
    \/ HandleTaskSubmissionSuccess
    \/ \E w \in polling : PollSuccess(w)
    \/ \E w \in polling : WorkerLoadConcurrent(w)
    \/ \E w \in polling : WorkerStoreConcurrent(w)
    \/ \E m \in Missions : MonitorMissionCompletion(m)
    \/ \E m \in Missions : SchedulerRun(m)
    \/ Tick
    \/ CrashAndRestart

SpecCrash == InitCrash /\ [][NextCrash]_vars

\* The engine's threads under fair scheduling, every submit call and every
\* provider task eventually answering, with max_concurrent = 1 and no
\* crash, cancel or manual retry.
InitFair ==
    InitWith([fail |-> MaxFail, cancel |-> 0, retry |-> 0, crash |-> 0,
              transport |-> 0, badcreate |-> 0, storeerr |-> 0,
              items |-> MaxItems, tasks |-> MaxTasks + MaxQueue + MaxItems], 1)

NextFair ==
    \/ Create
    \/ ConsumerAdmit
    \/ SubmitAccepted
    \/ SubmitRejected
    \/ HandleTaskSubmissionSuccess
    \/ HandleTaskSubmissionFailure
    \/ \E w \in polling : PollSuccess(w)
    \/ \E w \in polling : PollFailed(w)
    \/ \E w \in polling : WorkerLoadConcurrent(w)
    \/ \E w \in polling : WorkerStoreConcurrent(w)
    \/ \E m \in Missions : MonitorMissionCompletion(m)
    \/ RetryChecker
    \/ \E m \in Missions : SchedulerRun(m)
    \/ Tick

FairSpec ==
    /\ InitFair
    /\ [][NextFair]_vars
    /\ WF_vars(ConsumerAdmit)
    /\ WF_vars(SubmitAccepted \/ SubmitRejected)
    /\ WF_vars(HandleTaskSubmissionSuccess)
    /\ WF_vars(HandleTaskSubmissionFailure)
    /\ WF_vars(\E w \in polling : PollSuccess(w) \/ PollFailed(w))
    /\ WF_vars(\E w \in polling : WorkerLoadConcurrent(w))
    /\ WF_vars(\E w \in polling : WorkerStoreConcurrent(w))
    /\ WF_vars(\E m \in Missions : MonitorMissionCompletion(m))
    /\ WF_vars(RetryChecker)
    /\ WF_vars(\E m \in Missions : SchedulerRun(m))
    /\ WF_vars(Tick)

\* One item all of whose attempts fail: no provider task succeeds, and
\* there is no crash, cancel or manual retry.
InitExhaust ==
    InitWith([fail |-> MAX_RETRY_COUNT + 1 + MaxFail, cancel |-> 0,
              retry |-> 0, crash |-> 0, transport |-> 0,
              badcreate |-> 0, storeerr |-> 0, items |-> 1,
              tasks |-> MAX_RETRY_COUNT + 1 + MaxFail], 1)

NextExhaust ==
    \/ Create
    \/ ConsumerAdmit
    \/ SubmitAccepted
    \/ SubmitRejected
    \/ HandleTaskSubmissionSuccess
    \/ HandleTaskSubmissionFailure
    \/ \E w \in polling : PollFailed(w)
    \/ \E w \in polling : WorkerLoadConcurrent(w)
    \/ \E w \in polling : WorkerStoreConcurrent(w)
    \/ \E m \in Missions : MonitorMissionCompletion(m)
    \/ RetryChecker
    \/ \E m \in Missions : SchedulerRun(m)
    \/ Tick

SpecExhaust == InitExhaust /\ [][NextExhaust]_vars

\* FairSpec with add_to_queue taken as its two steps: the push under
\* queue_lock, and later the UPDATE of the mission status.
NextWindow ==
    \/ CreateWithWindow
    \/ \E m \in Missions : AddToQueueUpdate(m)
    \/ ConsumerAdmit
    \/ SubmitAccepted
    \/ SubmitRejected
    \/ HandleTaskSubmissionSuccess
    \/ HandleTaskSubmissionFailure
    \/ \E w \in polling : PollSuccess(w)
    \/ \E w \in polling : PollFailed(w)
    \/ \E w \in polling : WorkerLoadConcurrent(w)
    \/ \E w \in polling : WorkerStoreConcurrent(w)
    \/ \E m \in Missions : MonitorMissionCompletion(m)
    \/ RetryChecker
    \/ \E m \in Missions : SchedulerPush(m)
    \/ Tick

FairWindow ==
    /\ InitFair
    /\ [][NextWindow]_vars
    /\ WF_vars(\E m \in Missions : AddToQueueUpdate(m))
    /\ WF_vars(ConsumerAdmit)
    /\ WF_vars(SubmitAccepted \/ SubmitRejected)
    /\ WF_vars(HandleTaskSubmissionSuccess)
    /\ WF_vars(HandleTaskSubmissionFailure)
    /\ WF_vars(\E w \in polling : PollSuccess(w) \/ PollFailed(w))
    /\ WF_vars(\E w \in polling : WorkerLoadConcurrent(w))
    /\ WF_vars(\E w \in polling : WorkerStoreConcurrent(w))
    /\ WF_vars(\E m \in Missions : MonitorMissionCompletion(m))
    /\ WF_vars(RetryChecker)
    /\ WF_vars(\E m \in Missions : SchedulerPush(m))
    /\ WF_vars(Tick)

\* Polling with transport errors of query_task next to provider results,
\* without crash, cancel or manual retry.
InitTransport ==
    InitWith([fail |-> MaxFail, cancel |-> 0, retry |-> 0, crash |-> 0,
              transport |-> MaxTransport,
              badcreate |-> 0, storeerr |-> 0, items |-> MaxItems,
              tasks |-> MaxTasks], MaxConcurrent)

NextTransport ==
    \/ Create
    \/ ConsumerAdmit
    \/ SubmitAccepted
    \/ SubmitRejected
    \/ HandleTaskSubmissionSuccess
    \/ HandleTaskSubmissionFailure
    \/ \E w \in polling : PollSuccess(w)
    \/ \E w \in polling : PollFailed(w)
    \/ \E w \in polling : PollTransportError(w)
    \/ \E w \in polling : WorkerLoadConcurrent(w)
    \/ \E w \in polling : WorkerStoreConcurrent(w)
    \/ \E m \in Missions : MonitorMissionCompletion(m)
    \/ RetryChecker
    \/ \E m \in Missions : SchedulerRun(m)
    \/ Tick

SpecTransport == InitTransport /\ [][NextTransport]_vars

\* Create requests, valid and invalid, against the running engine, without
\* crash, cancel or manual retry.
InitCreate ==
    InitWith([fail |-> MaxFail, cancel |-> 0, retry |-> 0, crash |-> 0,
              transport |-> 0, badcreate |-> MaxBadCreate, storeerr |-> 0,
              items |-> MaxItems, tasks |-> MaxTasks], MaxConcurrent)

NextCreate ==
    \/ Create
    \/ CreateInvalid
    \/ ConsumerAdmit
    \/ SubmitAccepted
    \/ SubmitRejected
    \/ HandleTaskSubmissionSuccess
    \/ HandleTaskSubmissionFailure
    \/ \E w \in polling : PollSuccess(w)
    \/ \E w \in polling : PollFailed(w)
    \/ \E w \in polling : WorkerLoadConcurrent(w)
    \/ \E w \in polling : WorkerStoreConcurrent(w)
    \/ \E m \in Missions : MonitorMissionCompletion(m)
    \/ RetryChecker
    \/ \E m \in Missions : SchedulerRun(m)
    \/ Tick

SpecCreate == InitCreate /\ [][NextCreate]_vars

\* Every item of a mission failing once at the provider, then a manual
\* retry while the items wait for their backoff; no crash, no cancel.
InitOrder ==
    InitWith([fail |-> MaxItems, cancel |-> 0, retry |-> MaxRetryOps,
              crash |-> 0, transport |-> 0, badcreate |-> 0, storeerr |-> 0,
              items |-> MaxItems, tasks |-> MaxItems + 1], MaxConcurrent)

NextOrder ==
    \/ Create
    \/ ConsumerAdmit
    \/ SubmitAccepted
    \/ HandleTaskSubmissionSuccess
    \/ \E w \in polling : PollSuccess(w)
    \/ \E w \in polling : PollFailed(w)
    \/ \E w \in polling : WorkerLoadConcurrent(w)
    \/ \E w \in polling : WorkerStoreConcurrent(w)
    \/ \E m \in Missions : MonitorMissionCompletion(m)
    \/ RetryChecker
    \/ Tick
    \/ \E m \in Missions : Retry(m)

SpecOrder == InitOrder /\ [][NextOrder]_vars

\* Scheduled and immediate missions, cancel, and restarts after a downtime
\* that may outlast the scheduler's 10 minutes.
InitExpire ==
    InitWith([fail |-> 0, cancel |-> MaxCancel, retry |-> 0,
              crash |-> MaxRestarts, transport |-> 0, badcreate |-> 0, storeerr |-> 0,
              items |-> MaxItems, tasks |-> MaxTasks], MaxConcurrent)

NextExpire ==
    \/ Create
    \/ ConsumerAdmit
    \/ SubmitAccepted
    \/ HandleTaskSubmissionSuccess
    \/ \E w \in polling : PollSuccess(w)
    \/ \E w \in polling : WorkerLoadConcurrent(w)
    \/ \E w \in polling : WorkerStoreConcurrent(w)
    \/ \E m \in Missions : MonitorMissionCompletion(m)
    \/ \E m \in Missions : SchedulerRun(m)
    \/ Tick
    \/ \E m \in Missions : Cancel(m)
    \/ Restart

SpecExpire == InitExpire /\ [][NextExpire]_vars

\* The engine with execute_sql raising once, in the submission path or at
\* the exit of a polling worker; no crash, cancel or manual retry.
InitStore ==
    InitWith([fail |-> MaxFail, cancel |-> 0, retry |-> 0, crash |-> 0,
              transport |-> 0, badcreate |-> 0, storeerr |-> MaxStoreErr,
              items |-> MaxItems, tasks |-> MaxTasks], MaxConcurrent)

NextStore ==
    \/ Create
    \/ ConsumerAdmit
    \/ SubmitAccepted
    \/ SubmitRejected
    \/ HandleTaskSubmissionSuccess
    \/ \E r \in BOOLEAN : SubmissionSuccessStoreError(r)
    \/ HandleTaskSubmissionFailure
    \/ \E w \in polling : PollSuccess(w)
    \/ \E w \in polling : PollFailed(w)
    \/ \E w \in polling : WorkerLoadConcurrent(w)
    \/ \E w \in polling : WorkerStoreConcurrent(w)
    \/ \E w \in polling : WorkerStoreProgressError(w)
    \/ \E m \in Missions : MonitorMissionCompletion(m)
    \/ RetryChecker
    \/ \E m \in Missions : SchedulerRun(m)
    \/ Tick

SpecStore == InitStore /\ [][NextStore]_vars

\* create_api_mission statement by statement, next to the engine's threads
\* and a process crash.
InitInsert ==
    InitWith([fail |-> 0, cancel |-> 0, retry |-> 0, crash |-> MaxCrash,
              transport |-> 0, badcreate |-> 0, storeerr |-> 0,
              items |-> MaxItems, tasks |-> MaxTasks], MaxConcurrent)

NextInsert ==
    \/ CreateBegin
    \/ \E m \in Missions : CreateInsertItem(m)
    \/ \E m \in Missions : CreateEnd(m)
    \/ ConsumerAdmit
    \/ SubmitAccepted
    \/ HandleTaskSubmissionSuccess
    \/ \E w \in polling : PollSuccess(w)
    \/ \E w \in polling : WorkerLoadConcurrent(w)
    \/ \E w \in polling : WorkerStoreConcurrent(w)
    \/ \E m \in Missions : MonitorMissionCompletion(m)
    \/ \E m \in Missions : SchedulerRun(m)
    \/ Tick
    \/ CrashAndRestart

SpecInsert == InitInsert /\ [][NextInsert]_vars

\* ---------------------------------------------------------------- claims
RECURSIVE CountInSeq(_, _)
CountInSeq(s, i) ==
    IF s = <<>> THEN 0
    ELSE (IF Head(s).item = i THEN 1 ELSE 0) + CountInSeq(Tail(s), i)

\* entries of item i in the ready queue, being submitted, or being polled
Admissions(i) ==
    CountInSeq(item_queue, i) + CountInSeq(items_to_process, i)
    + Cardinality({w \in polling : w.item = i /\ w.pc = "poll"})

\* items admitted or credited whose submission or polling has not ended
InFlight ==
    Len(items_to_process) + Cardinality({w \in polling : w.pc = "poll"})

\* the step hands item i to the provider, which accepts it
Submitted(i) ==
    /\ Len(tasks') = Len(tasks) + 1
    /\ tasks'[Len(tasks')].item = i

\* C1: an item is never in the ready queue, in submission or in polling
\* more than once at a time.
C1_AtMostOneInFlightPerItem ==
    \A i \in Items : Admissions(i) <= 1

\* C2: the number of items in flight and current_concurrent never exceed
\* max_concurrent.
C2_InFlightWithinCap ==
    /\ InFlight <= max_concurrent
    /\ current_concurrent <= max_concurrent

\* C3: while a mission is cancelled no item of it is submitted to the
\* provider or set to processing.
C3_NoSubmitAfterCancel ==
    [][\A i \in Items :
          mission[MissionOf(i)].status = "cancelled" =>
             /\ ~Submitted(i)
             /\ (item'[i].status = "processing" => item[i].status = "processing")
      ]_vars

\* C4: a pending item whose next_retry_at lies in the future is not
\* submitted and does not become processing.
C4_NoSubmitBeforeRetryAt ==
    [][\A i \in Items :
          (/\ item[i].status = "pending"
           /\ item[i].next_retry_at # NULL
           /\ now < item[i].next_retry_at) =>
             /\ ~Submitted(i)
             /\ item'[i].status # "processing"
      ]_vars

\* C5: across a crash and the recovery no attempt of an item is accepted by
\* the provider twice.
C5_OneTaskPerAttempt ==
    \A t1, t2 \in 1..Len(tasks) :
        t1 # t2 => ~(/\ tasks[t1].item = tasks[t2].item
                     /\ tasks[t1].retry_count = tasks[t2].retry_count)

\* no thread of the engine has anything left to do
Quiescent ==
    /\ item_queue = <<>>
    /\ items_to_process = <<>>
    /\ polling = {}
    /\ \A m \in Missions :
          /\ mission[m].status # "scheduled"
          /\ ~(/\ monitors[m] > 0
               /\ \A i \in ItemsOf(m) :
                     item[i].status \notin {"pending", "processing"})

\* what the run without a crash ends in when the provider completes every
\* task: the mission and all its items completed
UninterruptedOutcome(m) ==
    /\ mission[m].status = "completed"
    /\ \A i \in ItemsOf(m) : item[i].status = "completed"

\* C6: a run with a crash and a restart ends in the terminal state of the
\* uninterrupted run with the same provider outcomes.
C6_RestartConverges ==
    \A m \in Missions :
        (mission[m].status # "absent" /\ Quiescent) => UninterruptedOutcome(m)

\* the same for the runs in which no crash happened
UninterruptedRunConverges ==
    \A m \in Missions :
        (mission[m].status # "absent" /\ Quiescent /\ budget.crash = MaxCrash)
            => UninterruptedOutcome(m)

\* C7: under fair scheduling every enqueued item eventually reaches
\* completed or failed.
C7_EveryItemTerminates ==
    \A i \in Items :
        [](item[i].status = "pending"
              => <>(item[i].status \in {"completed", "failed"}))

\* C8: completed_count + failed_count <= total_count, with equality
\* exactly when the mission status is completed, failed or cancelled.
C8_CountersMatchStatus ==
    \A m \in Missions :
        mission[m].status # "absent" =>
           /\ mission[m].completed_count + mission[m].failed_count
                 <= mission[m].total_count
           /\ (mission[m].completed_count + mission[m].failed_count
                 = mission[m].total_count)
              <=> mission[m].status \in {"completed", "failed", "cancelled"}

\* C9: a processing item has a platform_task_id and a platform_id.
C9_ProcessingHasTaskId ==
    \A i \in Items :
        item[i].status = "processing" =>
           /\ item[i].platform_task_id # NULL
           /\ item[i].platform_id # "none"

FailedAttempts == (MAX_RETRY_COUNT + 1 + MaxFail) - budget.fail

\* under SpecExhaust: attempts made so far, failed or still with the provider
Attempts ==
    FailedAttempts + Cardinality({w \in polling : w.pc = "poll"})
    + (IF submit_result = "success" THEN 1 ELSE 0)

\* C11: an item whose every attempt fails is failed after exactly
\* MAX_RETRY_COUNT + 1 attempts.
C11_FailedAfterAllAttempts ==
    \A i \in Items :
        item[i].status = "failed" => Attempts = MAX_RETRY_COUNT + 1

\* the step-by-step part of C11: a handled failure at retry_count <
\* MAX_RETRY_COUNT gives pending, retry_count + 1 and a next_retry_at; at
\* MAX_RETRY_COUNT it gives failed
FailureStepFollowsCount ==
    [][\A i \in Items :
          (FailedAttempts' > FailedAttempts \/ submit_result = "failed") =>
              \/ item'[i] = item[i]
              \/ /\ item'[i].status = "failed"
                 /\ item[i].retry_count = MAX_RETRY_COUNT
              \/ /\ item'[i].status = "pending"
                 /\ item[i].retry_count < MAX_RETRY_COUNT
                 /\ item'[i].retry_count = item[i].retry_count + 1
                 /\ item'[i].next_retry_at > now
              \/ /\ submit_result' = "failed"
                 /\ item'[i].status = item[i].status
                 /\ item'[i].retry_count = item[i].retry_count
      ]_vars

C13_CompletedHasNoOpenItem ==
    \A m \in Missions :
        mission[m].status = "completed" =>
            \A i \in ItemsOf(m) : item[i].status \notin {"pending", "processing"}

\* C14: a mission is completed only when all its items are terminal and at
\* least one of them is completed; a mission whose items all failed is not
\* completed.
C14_CompletedNeedsCompletedItem ==
    \A m \in Missions :
        mission[m].status = "completed" =>
            /\ \A i \in ItemsOf(m) : item[i].status \in {"completed", "failed"}
            /\ \E i \in ItemsOf(m) : item[i].status = "completed"

\* C15: once a mission is cancelled no step of the engine (monitor,
\* scheduler, add_to_queue, submission, recovery) changes its status; a
\* manual retry request is not counted as such a step.
C15_CancelledIsTerminal ==
    [][\A m \in Missions :
          (mission[m].status = "cancelled" /\ budget'.retry = budget.retry)
              => mission'[m].status = "cancelled"
      ]_vars

\* C16: no state has a cancelled mission with a pending item.
C16_CancelledHasNoPendingItem ==
    \A m \in Missions :
        mission[m].status = "cancelled" =>
            \A i \in ItemsOf(m) : item[i].status # "pending"

\* C17: after a cancel no polling worker moves an item of the cancelled
\* mission to completed or back to pending.
C17_NoTransitionAfterCancel ==
    [][\A w \in polling :
          (/\ mission[MissionOf(w.item)].status = "cancelled"
           /\ w.pc = "poll"
           /\ w \notin polling')
              => item'[w.item].status = item[w.item].status
      ]_vars

\* C18: a transport error of query_task does not end the polling worker and
\* changes neither the item's status nor its retry_count.
C18_TransportErrorKeepsPolling ==
    [][budget'.transport < budget.transport =>
          /\ \A w \in polling : w.pc = "poll" => w \in polling'
          /\ \A i \in Items : /\ item'[i].status = item[i].status
                              /\ item'[i].retry_count = item[i].retry_count
      ]_vars

\* C19: before its scheduled_time a mission stays scheduled (or is
\* cancelled) and none of its items is queued, admitted or submitted.
C19_NothingBeforeScheduledTime ==
    \A m \in Missions :
        (mission[m].scheduled_time # NULL /\ now < mission[m].scheduled_time)
            => /\ mission[m].status \in {"scheduled", "cancelled"}
               /\ \A i \in ItemsOf(m) :
                     /\ Admissions(i) = 0
                     /\ \A t \in 1..Len(tasks) : tasks[t].item # i

\* C20: a retry request on a mission that is completed, failed or cancelled
\* changes neither the mission row, nor its item rows, nor the ready queue.
C20_RetryOfTerminalIsNoOp ==
    [][budget'.retry < budget.retry =>
          \A m \in Missions :
              mission[m].status \in {"completed", "failed", "cancelled"} =>
                  /\ mission'[m] = mission[m]
                  /\ \A i \in ItemsOf(m) :
                        /\ item'[i] = item[i]
                        /\ CountInSeq(item_queue', i) = CountInSeq(item_queue, i)
      ]_vars

C22_ProgressNeverDecreases ==
    [][\A m \in Missions :
         mission'[m].completed_count + mission'[m].failed_count
             >= mission[m].completed_count + mission[m].failed_count]_vars

\* every item of mission m is completed or failed
AllItemsTerminal(m) ==
    /\ ItemsOf(m) # {}
    /\ \A i \in ItemsOf(m) : item[i].status \in {"completed", "failed"}

MissionTerminal(m) == mission[m].status \in {"completed", "failed", "cancelled"}

\* C23: under fair scheduling, once every item of a mission is completed or
\* failed the mission eventually has a terminal status and keeps it.
C23_TerminalItemsGiveTerminalMission ==
    \A m \in Missions : AllItemsTerminal(m) ~> [](MissionTerminal(m))

\* C24: MockApiClient never has more than max_concurrent tasks in
\* running_tasks, and a submit_task call made while max_concurrent tasks are
\* running is answered 429 and stores no task.
C24_MockRunningWithinLimit ==
    /\ [](Cardinality(mock.running_tasks) <= MockMaxConcurrent)
    /\ [][(/\ mock'.calls > mock.calls
            /\ Cardinality(mock.running_tasks) >= MockMaxConcurrent)
           => /\ mock'.response = 429
              /\ mock'.mock_tasks = mock.mock_tasks
              /\ mock'.running_tasks = mock.running_tasks
              /\ mock'.file = mock.file]_vars

\* a submit_task call has been refused with the running set full
W24_SubmitRefusedAtLimit ==
    /\ mock.response = 429
    /\ Cardinality(mock.running_tasks) = MockMaxConcurrent

\* position of a reported status on QUEUED -> RUNNING -> {SUCCESS, FAILED}
StatusRank(st) ==
    CASE st = "none" -> 0
      [] st = "QUEUED" -> 1
      [] st = "RUNNING" -> 2
      [] OTHER -> 3

\* caller q gets its answer from query_task in this step
Answered(q) ==
    /\ mock.queries[q].pc # "idle"
    /\ mock'.queries[q].pc = "idle"
    /\ mock'.restarts = mock.restarts

\* C25: the status query_task reports for a task never falls behind what had
\* been reported when the call began, and a call that begins after SUCCESS
\* or FAILED was reported gets that same status, also after a reload of the
\* state file.
C25_MockStatusOnlyAdvances ==
    [][\A q \in Callers : Answered(q) =>
          LET t == mock.queries[q].task
              seen == mock.queries[q].seen
          IN  /\ StatusRank(mock'.reported[t]) >= StatusRank(seen)
              /\ seen \in {"SUCCESS", "FAILED"} => mock'.reported[t] = seen]_vars

\* the consumer finishes the failed submission of the item it admitted
SubmissionFailureHandled ==
    /\ items_to_process # <<>>
    /\ submit_result = "failed"
    /\ submit_result' = "none"
    /\ items_to_process' = Tail(items_to_process)
    /\ budget'.crash = budget.crash

\* C26: when the submission of an admitted item fails, whether the item goes
\* back to pending with a backoff or is marked failed, the unit of
\* current_concurrent taken at its admission is given back, exactly once.
C26_FailedSubmissionReleasesSlot ==
    [][SubmissionFailureHandled
          => current_concurrent' = current_concurrent - 1]_vars

\* C27: the ready queue and current_concurrent are guarded by one mutex, so
\* between the load and the store of a thread's read-modify-write of
\* current_concurrent no other thread changes the counter.
C27_CounterUpdatesExclusive ==
    \A w \in polling : w.pc = "decrement" => w.loaded = current_concurrent

\* C28: the ready queue never holds an entry for an item whose stored
\* next_retry_at is still in the future, whatever scheduler promotion,
\* manual retry, add_to_queue and crash recovery do.
C28_NoQueueEntryInBackoff ==
    \A k \in 1..Len(item_queue) :
        LET i == item_queue[k].item
        IN  ~(item[i].next_retry_at # NULL /\ item[i].next_retry_at > now)

\* the entries of q that a consumer pass at this instant holds back
RECURSIVE HeldBack(_)
HeldBack(q) ==
    IF q = <<>> THEN <<>>
    ELSE IF Head(q).next_retry_at # NULL /\ Head(q).next_retry_at > now
         THEN <<Head(q)>> \o HeldBack(Tail(q))
         ELSE HeldBack(Tail(q))

\* the consumer thread runs a pass over the ready queue
ConsumerPassStep ==
    /\ items_to_process = <<>>
    /\ budget' = budget
    /\ adding' = adding
    /\ creating' = creating
    /\ mission' = mission
    /\ \/ items_to_process' # <<>>
       \/ item_queue' # item_queue /\ Len(item_queue') = Len(item_queue)

\* C29: the consumer admits in the order of enqueueing, and the entries it
\* holds back because their next_retry_at is in the future keep their
\* relative order in the queue after the pass.
C29_HeldBackKeepOrder ==
    [][ConsumerPassStep => HeldBack(item_queue') = HeldBack(item_queue)]_vars

\* C30: at most one completion monitor is alive per mission, and a mission
\* never moves from running back to queued.
C30_OneMonitorNoWayBack ==
    /\ [](\A m \in Missions : monitors[m] <= 1)
    /\ [][\A m \in Missions :
             ~(mission[m].status = "running" /\ mission'[m].status = "queued")]_vars

\* the provider has accepted a submission of item i at some time
EverAccepted(i) == \E k \in 1..Len(tasks) : tasks[k].item = i

\* a polling worker of item i gets an answer in this step
PolledNow(i) ==
    \E w \in polling : /\ w.item = i
                        /\ w.pc = "poll"
                        /\ polling' = Moved(w, "cleanup")

\* C31: every polled item has an accepted submission behind it, and an item
\* becomes completed or failed only through a poll: in the step of a poll,
\* or at least after a submission that a poll could have followed.
C31_SubmitThenPollThenTerminal ==
    /\ [](\A w \in polling : EverAccepted(w.item))
    /\ [][\A i \in Items :
             (/\ item[i].status \notin {"completed", "failed"}
              /\ item'[i].status \in {"completed", "failed"})
             => PolledNow(i) \/ EverAccepted(i)]_vars

\* the consumer hands item i to the platform in this step
SubmissionAttempt(i) ==
    /\ items_to_process # <<>>
    /\ Head(items_to_process).item = i
    /\ submit_result = "none"
    /\ submit_result' # "none"

\* C32: a scheduled mission that the scheduler's start found more than 10
\* minutes late is failed, stays failed, and none of its items is submitted.
C32_ExpiredMissionIsTerminal ==
    [][\A m \in Missions : mission[m].status = "failed" =>
          /\ mission'[m].status = "failed"
          /\ \A i \in ItemsOf(m) : ~SubmissionAttempt(i)]_vars

\* C33: a Store error in the submission path leaves the item as it was:
\* status, retry_count and next_retry_at are not changed by it.
C33_StoreErrorLeavesItem ==
    [][(/\ budget'.storeerr < budget.storeerr
        /\ items_to_process' # items_to_process)
       => \A i \in Items :
             /\ item'[i].status = item[i].status
             /\ item'[i].retry_count = item[i].retry_count
             /\ item'[i].next_retry_at = item[i].next_retry_at]_vars

\* C34: a mission row that exists in the store has exactly total_count item
\* rows, in every state another thread can see or a crash can leave behind.
C34_MissionHasAllItems ==
    \A m \in Missions :
        mission[m].status # "absent" =>
            Cardinality(ItemsOf(m)) = mission[m].total_count

\* C36: current_concurrent is never negative and a polling worker that exits
\* releases its slot exactly once, also when a Store operation raises during
\* the exit (in _update_progress, after the counter was already decremented).
WorkerExits(w) ==
    /\ w \in polling /\ w.pc = "decrement" /\ w \notin polling'
    /\ budget'.crash = budget.crash

C36_SlotReleasedOnce ==
    [][\A w \in polling :
         WorkerExits(w) => /\ current_concurrent' = w.loaded - 1
                           /\ current_concurrent' >= 0]_vars

\* C37: crash recovery leaves no entry in the ready queue for an item whose
\* mission is cancelled or failed, and no item of such a mission is submitted.
MissionClosed(ms, i) == ms[MissionOf(i)].status \in {"cancelled", "failed"}

C37_RecoverySkipsClosedMissions ==
    [][/\ budget'.crash < budget.crash =>
            \A k \in 1..Len(item_queue') :
                ~MissionClosed(mission', item_queue'[k].item)
       /\ \A i \in Items :
            SubmissionAttempt(i) => ~MissionClosed(mission, i)]_vars

\* C35: in the App engine an item whose status is cancelled keeps that
\* status whatever the consumer, _execute_item, polling or retry do later.
C35_AppCancelledIsTerminal ==
    [][\A i \in AppItems :
          app.items[i].status = "cancelled"
              => app'.items[i].status = "cancelled"]_vars

\* C38: every entry of the App engine's running_tasks belongs to a thread
\* that is still executing or polling that item, and len(running_tasks)
\* never exceeds MAX_CONCURRENT_TASKS.
C38_AppRunningTasksReleased ==
    /\ Cardinality(app.running_tasks) <= MAX_CONCURRENT_TASKS
    /\ \A i \in app.running_tasks : \E t \in app.threads : t.item_id = i

\* C39: every entry of the App engine's ready queue carries the stored
\* input_params of its item, and what is submitted for an item is built
\* from those same parameters on every attempt.
C39_AppQueueCarriesStoredParams ==
    /\ \A k \in 1..Len(app.item_queue) :
          app.item_queue[k].input_params
              = app.items[app.item_queue[k].item_id].input_params
    /\ \A i \in AppItems :
          app.nodes[i] # NotSubmitted
              => app.nodes[i] = ParamsToNodes(app.items[i].input_params)

\* C40: with strategy failover a submit_task_with_platform call ends:
\* select_platform never hands back a platform of attempted_platforms, no
\* platform is submitted to twice, the recursion is no deeper than the list
\* of platforms, once every platform is attempted the call returns a failure
\* result, and every call that was entered returns.
NoRepeats(seq) ==
    \A j, k \in 1..Len(seq) : seq[j] = seq[k] => j = k

Failover == pm.pc = "call" /\ pm.strategy = "failover"

C40_FailoverTerminates ==
    /\ [](Failover =>
            /\ SelectPlatform(pm.available, pm.strategy, pm.platform_id,
                              pm.attempted_platforms)
                   \notin PlatformIds(pm.attempted_platforms)
            /\ pm.depth <= Len(pm.available)
            /\ pm.depth < MaxDepth)
    /\ [](pm.strategy = "failover" => NoRepeats(pm.tried))
    /\ [][(Failover /\ PlatformIds(pm.available)
                          \subseteq PlatformIds(pm.attempted_platforms))
            => (pm'.pc = "returned" /\ pm'.result = "failed")]_vars
    /\ (pm.pc = "call" ~> pm.pc = "returned")

\* every platform of a three-platform list was submitted to, each failed,
\* and the call returned the failure result
W40_AllPlatformsFailed ==
    /\ pm.pc = "returned"
    /\ pm.strategy = "failover"
    /\ pm.result = "failed"
    /\ Len(pm.tried) = MaxPlatforms
    /\ PlatformIds(pm.tried) = Platforms

====
